---- MODULE Spec2Model ----
(***************************************************************************)
(* pnpm-catalog-lint: the rule-evaluation engine (collect_issues), the     *)
(* catalog model, the protocol classifier, the issue list and main's exit  *)
(* code.                                                                   *)
(*                                                                         *)
(* Representation.  A Rust String that the code inspects character by      *)
(* character (a version string, a catalog name) is a sequence of           *)
(* one-character strings; dependency names, package names and rule names   *)
(* are only ever compared for equality and are TLA+ strings.  Option<T> is *)
(* a sequence of length 0 (None) or 1 (Some).  An IndexMap is a sequence   *)
(* of <<key, value>> pairs with pairwise distinct keys, in insertion       *)
(* order.  A HashSet is a set; iterating it visits its elements in an      *)
(* order the program does not control.                                     *)
(***************************************************************************)
EXTENDS Naturals, Sequences, FiniteSets, TLC

VARIABLES
    pc,            \* position of main / collect_issues
    args,          \* args::Args after Args::parse()
    catalogs,      \* WorkspaceCatalogs built by parse_workspace
    packages,      \* Vec<Package> built by collect_packages
    issues,        \* IssuesList of collect_issues
    used_entries,  \* HashSet<CatalogEntry> of collect_issues
    pkg_idx,       \* index of `pkg` in `for pkg in packages`
    dep_idx,       \* index of `dep` in `for dep in pkg.all_dependencies()`
    pending,       \* entries `for entry in &used_entries` has not visited yet
    submitted,     \* history: every (package_type, issue) handed to IssuesList::add
    printed,       \* what main has printed: "nothing", "error", "success", "issues"
    exit_code,     \* process exit code, None until the process exits
    call,          \* which call of collect_issues is running (1 or 2)
    first,         \* result of the first call, kept by a caller that calls twice
    candidate,     \* the version string handed to the protocol classifier
    classified     \* what the three classifier functions returned for it

vars == <<pc, args, catalogs, packages, issues, used_entries, pkg_idx, dep_idx,
          pending, submitted, printed, exit_code, call, first, candidate, classified>>

-----------------------------------------------------------------------------
(* Option, strings, IndexMap *)

None == <<>>

Some(x) == <<x>>

is_some(o) == Len(o) = 1

unwrap(o) == o[1]

Range(s) == {s[i] : i \in 1..Len(s)}

starts_with(s, p) == Len(s) >= Len(p) /\ SubSeq(s, 1, Len(p)) = p

strip_prefix(s, p) ==
    IF starts_with(s, p) THEN Some(SubSeq(s, Len(p) + 1, Len(s))) ELSE None

keys(m) == [i \in 1..Len(m) |-> m[i][1]]

contains_key(m, k) == \E i \in 1..Len(m) : m[i][1] = k

get(m, k) ==
    IF contains_key(m, k)
    THEN Some(m[CHOOSE i \in 1..Len(m) : m[i][1] = k][2])
    ELSE None

-----------------------------------------------------------------------------
(* packages.rs *)

Root == [tag |-> "Root"]

Workspace(name) == [tag |-> "Workspace", name |-> name]

Display(package_type) ==
    IF package_type = Root THEN "(root)" ELSE package_type.name

KindDependencies == "dependencies"
KindDevDependencies == "devDependencies"
KindPeerDependencies == "peerDependencies"
KindOptionalDependencies == "optionalDependencies"

DepsOfKind(m, kind) ==
    [i \in 1..Len(m) |-> [name |-> m[i][1], version |-> m[i][2], kind |-> kind]]

all_dependencies(pkg) ==
    DepsOfKind(pkg.inner.dependencies, KindDependencies)
    \o DepsOfKind(pkg.inner.dev_dependencies, KindDevDependencies)
    \o DepsOfKind(pkg.inner.peer_dependencies, KindPeerDependencies)
    \o DepsOfKind(pkg.inner.optional_dependencies, KindOptionalDependencies)

CatalogPrefix == <<"c", "a", "t", "a", "l", "o", "g", ":">>

StrDefault == <<"d", "e", "f", "a", "u", "l", "t">>

SpecialPrefixes ==
    << <<"w", "o", "r", "k", "s", "p", "a", "c", "e", ":">>,
       <<"l", "i", "n", "k", ":">>,
       <<"f", "i", "l", "e", ":">>,
       <<"g", "i", "t", ":">>,
       <<"g", "i", "t", "+">>,
       <<"h", "t", "t", "p", ":">>,
       <<"h", "t", "t", "p", "s", ":">> >>

\* Mutant: only the bare prefix is taken for a catalog reference
is_catalog_ref_exact(version) == version = CatalogPrefix

is_catalog_ref(version) ==
    version = CatalogPrefix \/ starts_with(version, CatalogPrefix)

is_special_protocol(version) ==
    \E i \in 1..Len(SpecialPrefixes) : starts_with(version, SpecialPrefixes[i])

\* Mutant: the name "default" is not taken for the default catalog
parse_catalog_ref_no_default(version) ==
    IF version = CatalogPrefix
    THEN Some(None)
    ELSE LET name == strip_prefix(version, CatalogPrefix)
         IN  IF ~is_some(name)
             THEN None
             ELSE IF unwrap(name) = <<>>
                  THEN Some(None)
                  ELSE Some(Some(unwrap(name)))

parse_catalog_ref(version) ==
    IF version = CatalogPrefix
    THEN Some(None)
    ELSE LET name == strip_prefix(version, CatalogPrefix)
         IN  IF ~is_some(name)
             THEN None
             ELSE IF unwrap(name) = <<>> \/ unwrap(name) = StrDefault
                  THEN Some(None)
                  ELSE Some(Some(unwrap(name)))

-----------------------------------------------------------------------------
(* workspace.rs *)

CatalogEntry(catalog_name, dependency_name) ==
    [catalog_name |-> catalog_name, dependency_name |-> dependency_name]

has_default_entry(c, dep_name) == contains_key(c.default, dep_name)

has_named_entry(c, catalog_name, dep_name) ==
    /\ is_some(get(c.named, catalog_name))
    /\ contains_key(unwrap(get(c.named, catalog_name)), dep_name)

has_catalog(c, catalog_name) == contains_key(c.named, catalog_name)

\* Mutant: the entries of the named catalogs are left out
all_entries_default_only(c) ==
    {CatalogEntry(None, c.default[i][1]) : i \in 1..Len(c.default)}

all_entries(c) ==
    {CatalogEntry(None, c.default[i][1]) : i \in 1..Len(c.default)}
    \cup UNION {{CatalogEntry(Some(c.named[j][1]), c.named[j][2][i][1]) :
                    i \in 1..Len(c.named[j][2])} : j \in 1..Len(c.named)}

\* Mutant: the version is looked up in the default catalog whatever the entry
get_version_default_only(c, entry) == get(c.default, entry.dependency_name)

get_version(c, entry) ==
    IF entry.catalog_name = None
    THEN get(c.default, entry.dependency_name)
    ELSE LET deps == get(c.named, unwrap(entry.catalog_name))
         IN  IF is_some(deps) THEN get(unwrap(deps), entry.dependency_name) ELSE None

RECURSIVE FindNamed(_, _, _)
FindNamed(named, dep_name, j) ==
    IF j > Len(named)
    THEN <<>>
    ELSE (IF contains_key(named[j][2], dep_name) THEN <<Some(named[j][1])>> ELSE <<>>)
         \o FindNamed(named, dep_name, j + 1)

\* Mutant: the named catalogs are listed before the default catalog
find_dependency_named_first(c, dep_name) ==
    FindNamed(c.named, dep_name, 1)
    \o (IF contains_key(c.default, dep_name) THEN <<None>> ELSE <<>>)

find_dependency(c, dep_name) ==
    (IF contains_key(c.default, dep_name) THEN <<None>> ELSE <<>>)
    \o FindNamed(c.named, dep_name, 1)

-----------------------------------------------------------------------------
(* rules/ *)

LevelError == "error"
LevelWarning == "warning"

RuleCatalogEntryExists == "catalog-entry-exists"
RuleNoDirectVersion == "no-direct-version"
RuleUnusedCatalogEntry == "unused-catalog-entry"

DefaultEntry == [tag |-> "DefaultEntry"]

NamedCatalog(name) == [tag |-> "NamedCatalog", name |-> name]

NamedEntry(name) == [tag |-> "NamedEntry", name |-> name]

CatalogEntryExistsIssue(dependency_name, catalog_ref, kind, missing) ==
    [name |-> RuleCatalogEntryExists, level |-> LevelError,
     dependency_name |-> dependency_name, catalog_ref |-> catalog_ref,
     kind |-> kind, missing |-> missing]

NoDirectVersionIssue(dependency_name, version, kind, available_in) ==
    [name |-> RuleNoDirectVersion, level |-> LevelError,
     dependency_name |-> dependency_name, version |-> version,
     kind |-> kind, available_in |-> available_in]

UnusedCatalogEntryIssue(dependency_name, catalog_name, version) ==
    [name |-> RuleUnusedCatalogEntry, level |-> LevelWarning,
     dependency_name |-> dependency_name, catalog_name |-> catalog_name,
     version |-> version]

\* The literal text of the format strings of CatalogEntryExistsIssue::message
TxtQuote ==
    <<"'">>

TxtReferences ==
    <<"'", " ", "r", "e", "f", "e", "r", "e", "n", "c", "e", "s", " ", "\"">>

TxtIn ==
    <<"\"", " ", "i", "n", " ">>

TxtNotInDefault ==
    <<" ", "b", "u", "t", " ", "i", "s", " ", "n", "o", "t", " ", "d", "e",
      "f", "i", "n", "e", "d", " ", "i", "n", " ", "t", "h", "e", " ", "d",
      "e", "f", "a", "u", "l", "t", " ", "c", "a", "t", "a", "l", "o", "g">>

TxtButCatalog ==
    <<" ", "b", "u", "t", " ", "c", "a", "t", "a", "l", "o", "g", " ", "\"">>

TxtDoesNotExist ==
    <<"\"", " ", "d", "o", "e", "s", " ", "n", "o", "t", " ", "e", "x", "i",
      "s", "t">>

TxtNotInCatalog ==
    <<" ", "b", "u", "t", " ", "i", "s", " ", "n", "o", "t", " ", "d", "e",
      "f", "i", "n", "e", "d", " ", "i", "n", " ", "c", "a", "t", "a", "l",
      "o", "g", " ", "\"">>

TxtEndQuote ==
    <<"\"">>

\* CatalogEntryExistsIssue::message.  The message is a sequence of characters
\* in which the dependency name and the dependency kind, which the code
\* inserts whole, are one element each.
message(issue) ==
    IF issue.missing.tag = "DefaultEntry"
    THEN TxtQuote \o <<issue.dependency_name>> \o TxtReferences \o CatalogPrefix
         \o TxtIn \o <<issue.kind>> \o TxtNotInDefault
    ELSE IF issue.missing.tag = "NamedCatalog"
         THEN TxtQuote \o <<issue.dependency_name>> \o TxtReferences \o CatalogPrefix
              \o issue.missing.name \o TxtIn \o <<issue.kind>> \o TxtButCatalog
              \o issue.missing.name \o TxtDoesNotExist
         ELSE TxtQuote \o <<issue.dependency_name>> \o TxtReferences \o CatalogPrefix
              \o issue.missing.name \o TxtIn \o <<issue.kind>> \o TxtNotInCatalog
              \o issue.missing.name \o TxtEndQuote

IssuesList_new(ignored_rules) == [issues |-> <<>>, ignored_rules |-> ignored_rules]

\* Mutant: the issue is pushed without the test of the ignored rules
IssuesList_add_unfiltered(list, package_type, issue) ==
    [list EXCEPT !.issues = Append(@, <<package_type, issue>>)]

IssuesList_add(list, package_type, issue) ==
    IF issue.name \notin Range(list.ignored_rules)
    THEN [list EXCEPT !.issues = Append(@, <<package_type, issue>>)]
    ELSE list

CountLevel(list, level) ==
    Cardinality({i \in 1..Len(list.issues) : list.issues[i][2].level = level})

errors_count(list) == CountLevel(list, LevelError)

warnings_count(list) == CountLevel(list, LevelWarning)

is_empty(list) == Len(list.issues) = 0

-----------------------------------------------------------------------------
(* The inputs the model draws from.                                        *)
(*                                                                         *)
(* The size of an input is the number of command-line options given plus   *)
(* the number of catalog entries plus the number of manifests plus the     *)
(* number of dependencies; the model runs the program on every input of    *)
(* size at most MaxSize built from the names below.                        *)

MaxSize == 4

StrLegacy == <<"l", "e", "g", "a", "c", "y">>
StrReact16 == <<"r", "e", "a", "c", "t", "1", "6">>
StrDirect18 == <<"^", "1", "8", ".", "2", ".", "0">>
StrDirect16 == <<"^", "1", "6", ".", "0", ".", "0">>
StrWorkspaceAny == <<"w", "o", "r", "k", "s", "p", "a", "c", "e", ":", "*">>

DepOrder == <<"react", "jquery">>
DepNames == Range(DepOrder)
\* A named catalog may be called "default" (workspace.rs 17: any key)
CatalogNames == {StrLegacy, StrDefault}
VersionSet ==
    {CatalogPrefix, CatalogPrefix \o StrDefault, CatalogPrefix \o StrLegacy,
     StrDirect18, StrWorkspaceAny}
PackageNames == {"app"}
RuleNames == {RuleCatalogEntryExists, RuleNoDirectVersion, RuleUnusedCatalogEntry}

SeqsUpTo(S, n) == UNION {[1..k -> S] : k \in 0..n}

Injective(s) == \A i, j \in 1..Len(s) : i # j => s[i] # s[j]

InjectiveSeqs(S) == {s \in SeqsUpTo(S, Cardinality(S)) : Injective(s)}

\* IndexMaps with keys in K and values in V
IndexMaps(K, V) == {m \in SeqsUpTo(K \X V, Cardinality(K)) : Injective(keys(m))}

\* The catalog that pins the names of S, each at version v
MapOf(S, v) ==
    LET sel == SelectSeq(DepOrder, LAMBDA n : n \in S)
    IN  [i \in 1..Len(sel) |-> <<sel[i], v>>]

\* The default catalog pins at ^18.2.0, a named catalog (never empty) at ^16.0.0
CatalogsSet ==
    {[default |-> d, named |-> n] :
        d \in {MapOf(S, StrDirect18) : S \in SUBSET DepNames},
        n \in IndexMaps(CatalogNames,
                        {MapOf(S, StrDirect16) : S \in (SUBSET DepNames) \ {{}}})}

CatalogsSize(c) == Cardinality(all_entries(c))

Package(package_type, dependencies, dev_dependencies, peer_dependencies, optional_dependencies) ==
    [package_type |-> package_type,
     inner |-> [dependencies |-> dependencies,
                dev_dependencies |-> dev_dependencies,
                peer_dependencies |-> peer_dependencies,
                optional_dependencies |-> optional_dependencies]]

NumDeps(pkg) == Len(all_dependencies(pkg))

RECURSIVE SumDeps(_, _)
SumDeps(ps, i) == IF i > Len(ps) THEN 0 ELSE NumDeps(ps[i]) + SumDeps(ps, i + 1)

\* Packages of the given types with exactly n dependencies
PackageSet(types, n) ==
    {pkg \in {Package(t, d, <<>>, <<>>, <<>>) :
                 t \in types, d \in IndexMaps(DepNames, VersionSet)} :
        NumDeps(pkg) = n}

\* What the root manifest and a workspace manifest may load to: at least one
\* dependency each
RootPackages == UNION {PackageSet({Root}, n) : n \in 1..Cardinality(DepNames)}

WorkspacePackages ==
    UNION {PackageSet({Workspace(w) : w \in PackageNames}, n) :
              n \in 1..Cardinality(DepNames)}

Args(ignore_rules, ignore_packages, ignore_dependencies, fail_on_warnings) ==
    [ignore_rules |-> ignore_rules, ignore_packages |-> ignore_packages,
     ignore_dependencies |-> ignore_dependencies,
     fail_on_warnings |-> fail_on_warnings]

ArgsSize(a) ==
    Len(a.ignore_rules) + Len(a.ignore_packages) + Len(a.ignore_dependencies)
    + (IF a.fail_on_warnings THEN 1 ELSE 0)

ArgsSet ==
    {a \in {Args(r, p, d, f) :
               r \in InjectiveSeqs(RuleNames),
               p \in InjectiveSeqs({"(root)"} \cup PackageNames),
               d \in InjectiveSeqs(DepNames),
               f \in BOOLEAN} :
        ArgsSize(a) <= MaxSize}

-----------------------------------------------------------------------------
(* collect.rs: collect_issues *)

\* The working state of one call: used_entries, issues, and the history of
\* everything handed to IssuesList::add.
Submit(st, package_type, issue) ==
    [st EXCEPT !.issues = IssuesList_add(@, package_type, issue),
               !.submitted = Append(@, <<package_type, issue>>)]

\* Mutant: the entries of the name are dropped whatever their catalog
RetainAnyCatalog(used, catalog_name, dep_name) ==
    {e \in used : e.dependency_name # dep_name}

\* used_entries.retain(|e| !(e.catalog_name == catalog_name
\*                           && e.dependency_name == dep_name))
Retain(used, catalog_name, dep_name) ==
    {e \in used : ~(e.catalog_name = catalog_name /\ e.dependency_name = dep_name)}

\* for catalog_name in &found_in { used_entries.retain(...) }
RECURSIVE RetainFound(_, _, _, _)
RetainFound(used, found_in, dep_name, i) ==
    IF i > Len(found_in)
    THEN used
    ELSE RetainFound(Retain(used, found_in[i], dep_name), found_in, dep_name, i + 1)

\* Mutant: a default reference also looks in a named catalog called "default"
CheckDefaultRefAlsoNamed(c, package_type, dep, st) ==
    IF has_default_entry(c, dep.name) \/ has_named_entry(c, StrDefault, dep.name)
    THEN [st EXCEPT !.used_entries =
                       Retain(Retain(@, None, dep.name), Some(StrDefault), dep.name)]
    ELSE Submit(st, package_type,
                CatalogEntryExistsIssue(dep.name, dep.version, dep.kind, DefaultEntry))

\* Mutant: the missing default entry is reported for the root package
CheckDefaultRefAsRoot(c, package_type, dep, st) ==
    IF has_default_entry(c, dep.name)
    THEN [st EXCEPT !.used_entries = Retain(@, None, dep.name)]
    ELSE Submit(st, Root,
                CatalogEntryExistsIssue(dep.name, dep.version, dep.kind, DefaultEntry))

CheckDefaultRef(c, package_type, dep, st) ==
    IF has_default_entry(c, dep.name)
    THEN [st EXCEPT !.used_entries = Retain(@, None, dep.name)]
    ELSE Submit(st, package_type,
                CatalogEntryExistsIssue(dep.name, dep.version, dep.kind, DefaultEntry))

\* Mutant: NamedCatalog and NamedEntry change places
CheckNamedRefSwapped(c, package_type, dep, name, st) ==
    IF ~has_catalog(c, name)
    THEN Submit(st, package_type,
                CatalogEntryExistsIssue(dep.name, dep.version, dep.kind,
                                        NamedEntry(name)))
    ELSE IF has_named_entry(c, name, dep.name)
         THEN [st EXCEPT !.used_entries = Retain(@, Some(name), dep.name)]
         ELSE Submit(st, package_type,
                     CatalogEntryExistsIssue(dep.name, dep.version, dep.kind,
                                             NamedCatalog(name)))

CheckNamedRef(c, package_type, dep, name, st) ==
    IF ~has_catalog(c, name)
    THEN Submit(st, package_type,
                CatalogEntryExistsIssue(dep.name, dep.version, dep.kind,
                                        NamedCatalog(name)))
    ELSE IF has_named_entry(c, name, dep.name)
         THEN [st EXCEPT !.used_entries = Retain(@, Some(name), dep.name)]
         ELSE Submit(st, package_type,
                     CatalogEntryExistsIssue(dep.name, dep.version, dep.kind,
                                             NamedEntry(name)))

\* Mutant: only the first catalog found is marked used
CheckDirectVersionFirstOnly(c, package_type, dep, st) ==
    LET found_in == find_dependency(c, dep.name)
    IN  IF found_in # <<>>
        THEN Submit([st EXCEPT !.used_entries = Retain(@, found_in[1], dep.name)],
                    package_type,
                    NoDirectVersionIssue(dep.name, dep.version, dep.kind, found_in))
        ELSE st

\* Mutant: an ignored no-direct-version rule skips the whole branch
CheckDirectVersionUnlessIgnored(c, package_type, dep, st) ==
    LET found_in == find_dependency(c, dep.name)
    IN  IF found_in # <<>> /\ RuleNoDirectVersion \notin Range(st.issues.ignored_rules)
        THEN Submit([st EXCEPT !.used_entries = RetainFound(@, found_in, dep.name, 1)],
                    package_type,
                    NoDirectVersionIssue(dep.name, dep.version, dep.kind, found_in))
        ELSE st

CheckDirectVersion(c, package_type, dep, st) ==
    LET found_in == find_dependency(c, dep.name)
    IN  IF found_in # <<>>
        THEN Submit([st EXCEPT !.used_entries = RetainFound(@, found_in, dep.name, 1)],
                    package_type,
                    NoDirectVersionIssue(dep.name, dep.version, dep.kind, found_in))
        ELSE st

\* Mutant: a special protocol is handled as a direct version
CheckDependencyNoSkip(c, package_type, dep, st) ==
    IF is_catalog_ref(dep.version)
    THEN LET parsed == parse_catalog_ref(dep.version)
         IN  IF ~is_some(parsed)
             THEN st
             ELSE IF unwrap(parsed) = None
                  THEN CheckDefaultRef(c, package_type, dep, st)
                  ELSE CheckNamedRef(c, package_type, dep, unwrap(unwrap(parsed)), st)
    ELSE CheckDirectVersion(c, package_type, dep, st)

\* The body of `for dep in pkg.all_dependencies()` after the ignore test.
CheckDependency(c, package_type, dep, st) ==
    IF is_catalog_ref(dep.version)
    THEN LET parsed == parse_catalog_ref(dep.version)
         IN  IF ~is_some(parsed)
             THEN st
             ELSE IF unwrap(parsed) = None
                  THEN CheckDefaultRef(c, package_type, dep, st)
                  ELSE CheckNamedRef(c, package_type, dep, unwrap(unwrap(parsed)), st)
    ELSE IF ~is_special_protocol(dep.version)
         THEN CheckDirectVersion(c, package_type, dep, st)
         ELSE st

\* The body of `for entry in &used_entries`.
ReportUnused(c, entry, st) ==
    LET version == get_version(c, entry)
    IN  IF is_some(version)
        THEN Submit(st, Root,
                    UnusedCatalogEntryIssue(entry.dependency_name, entry.catalog_name,
                                            unwrap(version)))
        ELSE st

\* Mutant: the root manifest is never taken for an ignored package
PackageIgnoredNotRoot(pkg) ==
    /\ pkg.package_type # Root
    /\ pkg.package_type.name \in Range(args.ignore_packages)

PackageIgnored(pkg) == Display(pkg.package_type) \in Range(args.ignore_packages)

DependencyIgnored(dep) == dep.name \in Range(args.ignore_dependencies)

State == [used_entries |-> used_entries, issues |-> issues, submitted |-> submitted]

CurrentPackage == packages[pkg_idx]

CurrentDeps == all_dependencies(CurrentPackage)

\* collect.rs 72-75
CollectIssuesEnter ==
    /\ pc = "collect_issues"
    /\ issues' = IssuesList_new(args.ignore_rules)
    /\ used_entries' = all_entries(catalogs)
    /\ submitted' = <<>>
    /\ pkg_idx' = 1
    /\ dep_idx' = 1
    /\ pending' = {}
    /\ pc' = "packages"
    /\ UNCHANGED <<candidate, classified>>
    /\ UNCHANGED <<args, catalogs, packages, printed, exit_code, call, first>>

\* collect.rs 79-85: an ignored package is passed over
SkipIgnoredPackage ==
    /\ pc = "packages"
    /\ pkg_idx <= Len(packages)
    /\ PackageIgnored(CurrentPackage)
    /\ pkg_idx' = pkg_idx + 1
    /\ dep_idx' = 1
    /\ UNCHANGED <<candidate, classified>>
    /\ UNCHANGED <<pc, args, catalogs, packages, issues, used_entries, pending,
                   submitted, printed, exit_code, call, first>>

\* collect.rs 89-91: an ignored dependency is passed over
SkipIgnoredDependency ==
    /\ pc = "packages"
    /\ pkg_idx <= Len(packages)
    /\ ~PackageIgnored(CurrentPackage)
    /\ dep_idx <= Len(CurrentDeps)
    /\ DependencyIgnored(CurrentDeps[dep_idx])
    /\ dep_idx' = dep_idx + 1
    /\ UNCHANGED <<candidate, classified>>
    /\ UNCHANGED <<pc, args, catalogs, packages, issues, used_entries, pkg_idx,
                   pending, submitted, printed, exit_code, call, first>>

\* collect.rs 93-171: one dependency is checked
VisitDependency ==
    /\ pc = "packages"
    /\ pkg_idx <= Len(packages)
    /\ ~PackageIgnored(CurrentPackage)
    /\ dep_idx <= Len(CurrentDeps)
    /\ ~DependencyIgnored(CurrentDeps[dep_idx])
    /\ LET st == CheckDependency(catalogs, CurrentPackage.package_type,
                                 CurrentDeps[dep_idx], State)
       IN  /\ used_entries' = st.used_entries
           /\ issues' = st.issues
           /\ submitted' = st.submitted
    /\ dep_idx' = dep_idx + 1
    /\ UNCHANGED <<candidate, classified>>
    /\ UNCHANGED <<pc, args, catalogs, packages, pkg_idx, pending, printed,
                   exit_code, call, first>>

\* collect.rs 87/172: the dependencies of the package are exhausted
NextPackage ==
    /\ pc = "packages"
    /\ pkg_idx <= Len(packages)
    /\ ~PackageIgnored(CurrentPackage)
    /\ dep_idx > Len(CurrentDeps)
    /\ pkg_idx' = pkg_idx + 1
    /\ dep_idx' = 1
    /\ UNCHANGED <<candidate, classified>>
    /\ UNCHANGED <<pc, args, catalogs, packages, issues, used_entries, pending,
                   submitted, printed, exit_code, call, first>>

\* collect.rs 173-176: the pass is over, the iteration of used_entries starts
BeginUnused ==
    /\ pc = "packages"
    /\ pkg_idx > Len(packages)
    /\ pending' = used_entries
    /\ pc' = "unused"
    /\ UNCHANGED <<candidate, classified>>
    /\ UNCHANGED <<args, catalogs, packages, issues, used_entries, pkg_idx, dep_idx,
                   submitted, printed, exit_code, call, first>>

\* collect.rs 176-187: the HashSet iterator yields some entry not yet visited
EmitUnused ==
    /\ pc = "unused"
    /\ \E entry \in pending :
          /\ LET st == ReportUnused(catalogs, entry, State)
             IN  /\ issues' = st.issues
                 /\ submitted' = st.submitted
          /\ pending' = pending \ {entry}
    /\ UNCHANGED <<candidate, classified>>
    /\ UNCHANGED <<pc, args, catalogs, packages, used_entries, pkg_idx, dep_idx,
                   printed, exit_code, call, first>>

\* collect.rs 189
CollectIssuesReturn ==
    /\ pc = "unused"
    /\ pending = {}
    /\ pc' = "returned"
    /\ UNCHANGED <<candidate, classified>>
    /\ UNCHANGED <<args, catalogs, packages, issues, used_entries, pkg_idx, dep_idx,
                   pending, submitted, printed, exit_code, call, first>>

CollectIssues ==
    \/ CollectIssuesEnter
    \/ SkipIgnoredPackage
    \/ SkipIgnoredDependency
    \/ VisitDependency
    \/ NextPackage
    \/ BeginUnused
    \/ EmitUnused
    \/ CollectIssuesReturn

-----------------------------------------------------------------------------
(* main.rs *)

NoCatalogs == [default |-> <<>>, named |-> <<>>]

Exit(code, output) ==
    /\ exit_code' = Some(code)
    /\ printed' = output
    /\ pc' = "exited"

\* main.rs 17-23
Canonicalize ==
    /\ pc = "canonicalize"
    /\ \/ /\ pc' = "parse_workspace"
          /\ UNCHANGED <<printed, exit_code>>
       \/ Exit(1, "error")
    /\ UNCHANGED <<candidate, classified>>
    /\ UNCHANGED <<args, catalogs, packages, issues, used_entries, pkg_idx, dep_idx,
                   pending, submitted, call, first>>

\* main.rs 25-31, workspace.rs 94-108
ParseWorkspace ==
    /\ pc = "parse_workspace"
    /\ \/ /\ catalogs' \in {c \in CatalogsSet :
                             ArgsSize(args) + CatalogsSize(c) <= MaxSize}
          /\ pc' = "collect_packages"
          /\ UNCHANGED <<printed, exit_code>>
       \/ /\ Exit(1, "error")
          /\ UNCHANGED catalogs
    /\ UNCHANGED <<candidate, classified>>
    /\ UNCHANGED <<args, packages, issues, used_entries, pkg_idx, dep_idx, pending,
                   submitted, call, first>>

\* The size of the input read so far
InputSize ==
    ArgsSize(args) + CatalogsSize(catalogs) + Len(packages) + SumDeps(packages, 1)

\* collect.rs 16-22, 55-58: one more manifest is loaded and pushed, the root
\* manifest before any other
PushPackage(budget) ==
    /\ pc = "collect_packages"
    /\ \E pkg \in (IF packages = <<>> THEN RootPackages ELSE {}) \cup WorkspacePackages :
          /\ InputSize + 1 + NumDeps(pkg) <= budget
          /\ packages' = Append(packages, pkg)
    /\ UNCHANGED <<candidate, classified>>
    /\ UNCHANGED <<pc, args, catalogs, issues, used_entries, pkg_idx, dep_idx, pending,
                   submitted, printed, exit_code, call, first>>

\* collect.rs 62, main.rs 33-34: Ok(packages)
CollectPackagesOk ==
    /\ pc = "collect_packages"
    /\ pc' = "collect_issues"
    /\ UNCHANGED <<candidate, classified>>
    /\ UNCHANGED <<args, catalogs, packages, issues, used_entries, pkg_idx, dep_idx,
                   pending, submitted, printed, exit_code, call, first>>

\* collect.rs 20, 33, 36, 57 and main.rs 35-38: a manifest or a pattern fails,
\* the vector built so far is dropped, main prints the error and exits
CollectPackagesErr ==
    /\ pc = "collect_packages"
    /\ Exit(1, "error")
    /\ packages' = <<>>
    /\ UNCHANGED <<candidate, classified>>
    /\ UNCHANGED <<args, catalogs, issues, used_entries, pkg_idx, dep_idx, pending,
                   submitted, call, first>>

\* main.rs 33-39, collect.rs 12-63
CollectPackages ==
    \/ PushPackage(MaxSize)
    \/ CollectPackagesOk
    \/ CollectPackagesErr

\* Mutant: --fail-on-warnings is not looked at
ExitCodeErrorsOnly(list, fail_on_warnings) ==
    IF errors_count(list) > 0 THEN 1 ELSE 0

ExitCode(list, fail_on_warnings) ==
    LET has_errors == errors_count(list) > 0
        has_failing_warnings == fail_on_warnings /\ warnings_count(list) > 0
    IN  IF has_errors \/ has_failing_warnings THEN 1 ELSE 0

\* main.rs 49-64
Report ==
    /\ pc = "returned"
    /\ IF is_empty(issues)
       THEN Exit(0, "success")
       ELSE Exit(ExitCode(issues, args.fail_on_warnings), "issues")
    /\ UNCHANGED <<candidate, classified>>
    /\ UNCHANGED <<args, catalogs, packages, issues, used_entries, pkg_idx, dep_idx,
                   pending, submitted, call, first>>

Init ==
    /\ pc = "canonicalize"
    /\ args \in ArgsSet
    /\ catalogs = NoCatalogs
    /\ packages = <<>>
    /\ issues = IssuesList_new(<<>>)
    /\ used_entries = {}
    /\ pkg_idx = 1
    /\ dep_idx = 1
    /\ pending = {}
    /\ submitted = <<>>
    /\ printed = "nothing"
    /\ exit_code = None
    /\ call = 1
    /\ first = None
    /\ candidate = <<>>
    /\ classified = None

Next ==
    \/ Canonicalize
    \/ ParseWorkspace
    \/ CollectPackages
    \/ CollectIssues
    \/ Report

Spec == Init /\ [][Next]_vars

-----------------------------------------------------------------------------
(* A caller that runs collect_issues twice on the same packages and        *)
(* catalogs, as a test of the engine would, after it has built its list of *)
(* packages one package at a time.  The second call is given the           *)
(* same ignore lists as the first or a different list of ignored rules;    *)
(* that list counts in the size of the input, as the first call's does.    *)

InitTwice ==
    /\ pc = "collect_packages"
    /\ args \in {a \in ArgsSet : ~a.fail_on_warnings /\ ArgsSize(a) < MaxSize}
    /\ catalogs \in {c \in CatalogsSet : ArgsSize(args) + CatalogsSize(c) < MaxSize}
    /\ packages = <<>>
    /\ issues = IssuesList_new(<<>>)
    /\ used_entries = {}
    /\ pkg_idx = 1
    /\ dep_idx = 1
    /\ pending = {}
    /\ submitted = <<>>
    /\ printed = "nothing"
    /\ exit_code = None
    /\ call = 1
    /\ first = None
    /\ candidate = <<>>
    /\ classified = None

CallAgain ==
    /\ pc = "returned"
    /\ call = 1
    /\ first' = Some([issues |-> issues, used_entries |-> used_entries,
                      ignore_rules |-> args.ignore_rules])
    /\ call' = 2
    /\ \E r \in InjectiveSeqs(RuleNames) :
          /\ InputSize + Len(r) <= MaxSize
          /\ args' = [args EXCEPT !.ignore_rules = r]
    /\ pc' = "collect_issues"
    /\ UNCHANGED <<candidate, classified>>
    /\ UNCHANGED <<catalogs, packages, issues, used_entries, pkg_idx, dep_idx,
                   pending, submitted, printed, exit_code>>

NextTwice ==
    \/ PushPackage(MaxSize - 1)
    \/ CollectPackagesOk
    \/ CollectIssues
    \/ CallAgain

SpecTwice == InitTwice /\ [][NextTwice]_vars

-----------------------------------------------------------------------------
(* A caller of the protocol classifier of packages.rs, as its unit tests   *)
(* are: one version string is handed to is_catalog_ref,                    *)
(* is_special_protocol and parse_catalog_ref.  The strings are the         *)
(* concatenations of at most MaxTokens of the tokens below.                *)

MaxTokens == 2

StrCatalogNoColon == <<"c", "a", "t", "a", "l", "o", "g">>
StrCaret100 == <<"^", "1", ".", "0", ".", "0">>
StrStar == <<"*">>

Tokens ==
    {CatalogPrefix, StrCatalogNoColon, StrDefault, StrReact16, StrCaret100, StrStar}
    \cup Range(SpecialPrefixes)

RECURSIVE Concat(_)
Concat(ts) == IF ts = <<>> THEN <<>> ELSE Head(ts) \o Concat(Tail(ts))

VersionStrings == {Concat(ts) : ts \in SeqsUpTo(Tokens, MaxTokens)}

InitClassify ==
    /\ pc = "classify"
    /\ candidate \in VersionStrings
    /\ classified = None
    /\ args = Args(<<>>, <<>>, <<>>, FALSE)
    /\ catalogs = NoCatalogs
    /\ packages = <<>>
    /\ issues = IssuesList_new(<<>>)
    /\ used_entries = {}
    /\ pkg_idx = 1
    /\ dep_idx = 1
    /\ pending = {}
    /\ submitted = <<>>
    /\ printed = "nothing"
    /\ exit_code = None
    /\ call = 1
    /\ first = None

\* packages.rs 130-160: the three functions are applied to the string
Classify ==
    /\ pc = "classify"
    /\ classified' = Some([is_catalog_ref |-> is_catalog_ref(candidate),
                           is_special_protocol |-> is_special_protocol(candidate),
                           parse_catalog_ref |-> parse_catalog_ref(candidate)])
    /\ pc' = "classified"
    /\ UNCHANGED <<candidate, args, catalogs, packages, issues, used_entries, pkg_idx,
                   dep_idx, pending, submitted, printed, exit_code, call, first>>

NextClassify == Classify

SpecClassify == InitClassify /\ [][NextClassify]_vars

-----------------------------------------------------------------------------
(* Vocabulary of the properties *)

\* Catalog catalog_name (None: the default catalog) pins dep_name
Pins(c, catalog_name, dep_name) ==
    IF catalog_name = None
    THEN \E i \in 1..Len(c.default) : c.default[i][1] = dep_name
    ELSE \E j \in 1..Len(c.named) :
            /\ c.named[j][1] = unwrap(catalog_name)
            /\ \E i \in 1..Len(c.named[j][2]) : c.named[j][2][i][1] = dep_name

CatalogExists(c, name) == \E j \in 1..Len(c.named) : c.named[j][1] = name

AllCatalogs(c) == {None} \cup {Some(c.named[j][1]) : j \in 1..Len(c.named)}

PinnedSomewhere(c, dep_name) == \E n \in AllCatalogs(c) : Pins(c, n, dep_name)

IsDirect(version) == ~is_catalog_ref(version) /\ ~is_special_protocol(version)

Dep(i, j) == all_dependencies(packages[i])[j]

DepPositions ==
    {ij \in (1..Len(packages)) \X (1..2 * Cardinality(DepNames)) :
        ij[2] <= NumDeps(packages[ij[1]])}

\* The pass has gone past dependency j of package i
Passed(i, j) ==
    \/ pc \in {"unused", "returned"}
    \/ pc = "exited" /\ printed # "error"
    \/ pc = "packages" /\ (pkg_idx > i \/ (pkg_idx = i /\ dep_idx > j))

\* Dependency j of package i is not ignored and has been checked
Checked(i, j) ==
    /\ Passed(i, j)
    /\ ~PackageIgnored(packages[i])
    /\ ~DependencyIgnored(Dep(i, j))

PassOver == pc = "returned" \/ (pc = "exited" /\ printed # "error")

\* This step checks the current dependency (collect.rs 93-171)
VisitStep ==
    /\ pc = "packages"
    /\ pkg_idx <= Len(packages)
    /\ ~PackageIgnored(CurrentPackage)
    /\ dep_idx <= Len(CurrentDeps)
    /\ ~DependencyIgnored(CurrentDeps[dep_idx])
    /\ dep_idx' = dep_idx + 1

IssuesNamed(list, rule) == {k \in 1..Len(list) : list[k][2].name = rule}

ReactScenario ==
    /\ catalogs = [default |-> <<<<"react", StrDirect18>>>>, named |-> <<>>]
    /\ packages = <<Package(Workspace("app"), <<<<"react", StrDirect18>>>>,
                            <<>>, <<>>, <<>>)>>
    /\ args.ignore_packages = <<>>
    /\ args.ignore_dependencies = <<>>

-----------------------------------------------------------------------------
(* C1: once a non-ignored dependency of a non-ignored package with a direct *)
(* version has been checked, no entry (c, name) of a catalog c pinning its  *)
(* name is left in used_entries, and the list holds no unused-catalog-entry *)
(* warning for such an entry; default catalog {react} and one package with  *)
(* react at a literal version gives exactly 1 error and 0 warnings.         *)
C1_DirectVersionMarksUsed ==
    /\ \A ij \in DepPositions :
          (Checked(ij[1], ij[2]) /\ IsDirect(Dep(ij[1], ij[2]).version)) =>
             \A n \in AllCatalogs(catalogs) :
                Pins(catalogs, n, Dep(ij[1], ij[2]).name) =>
                   /\ CatalogEntry(n, Dep(ij[1], ij[2]).name) \notin used_entries
                   /\ \A k \in IssuesNamed(issues.issues, RuleUnusedCatalogEntry) :
                         ~(/\ issues.issues[k][2].catalog_name = n
                           /\ issues.issues[k][2].dependency_name
                                 = Dep(ij[1], ij[2]).name)
    /\ (PassOver /\ ReactScenario /\ args.ignore_rules = <<>>) =>
          /\ errors_count(issues) = 1
          /\ warnings_count(issues) = 0
          /\ issues.issues[1][2].name = RuleNoDirectVersion

\* A direct version whose name two catalogs pin has been checked, pass over
C1_Witness ==
    /\ pc = "returned"
    /\ \E ij \in DepPositions :
          /\ Checked(ij[1], ij[2])
          /\ IsDirect(Dep(ij[1], ij[2]).version)
          /\ Cardinality({n \in AllCatalogs(catalogs) :
                             Pins(catalogs, n, Dep(ij[1], ij[2]).name)}) >= 2

-----------------------------------------------------------------------------
(* C2: the entries left in used_entries at the end of the pass do not      *)
(* depend on the list of ignored rules: a second call on the same packages *)
(* and catalogs with any other list of ignored rules ends with the same    *)
(* used_entries as the first.  With no-direct-version ignored, a checked   *)
(* direct version whose name is pinned leaves neither a no-direct-version  *)
(* issue nor an unused-catalog-entry warning for its entries in the list;  *)
(* in the one-package, one-entry scenario the list is empty.               *)
C2_RemovalIndependentOfIgnoredRules ==
    /\ (pc = "returned" /\ call = 2) => used_entries = unwrap(first).used_entries
    /\ RuleNoDirectVersion \in Range(args.ignore_rules) =>
          \A ij \in DepPositions :
             (/\ Checked(ij[1], ij[2])
              /\ IsDirect(Dep(ij[1], ij[2]).version)
              /\ PinnedSomewhere(catalogs, Dep(ij[1], ij[2]).name)) =>
                /\ IssuesNamed(issues.issues, RuleNoDirectVersion) = {}
                /\ \A k \in IssuesNamed(issues.issues, RuleUnusedCatalogEntry) :
                      issues.issues[k][2].dependency_name # Dep(ij[1], ij[2]).name
    /\ (/\ PassOver
        /\ ReactScenario
        /\ RuleNoDirectVersion \in Range(args.ignore_rules)) => is_empty(issues)

\* The second call, with no-direct-version ignored in one call only, has
\* checked a direct version whose name is pinned
C2_Witness ==
    /\ pc = "returned"
    /\ call = 2
    /\ RuleNoDirectVersion \in Range(args.ignore_rules)
    /\ RuleNoDirectVersion \notin Range(unwrap(first).ignore_rules)
    /\ \E ij \in DepPositions :
          /\ Checked(ij[1], ij[2])
          /\ IsDirect(Dep(ij[1], ij[2]).version)
          /\ PinnedSomewhere(catalogs, Dep(ij[1], ij[2]).name)
    /\ IssuesNamed(unwrap(first).issues.issues, RuleNoDirectVersion) # {}

-----------------------------------------------------------------------------
\* The place of a catalog in the order default, then named as declared
CatalogRank(c, n) ==
    IF n = None THEN 0 ELSE CHOOSE j \in 1..Len(c.named) : c.named[j][1] = unwrap(n)

\* The catalogs of c that pin dep_name
Pinning(c, dep_name) == {n \in AllCatalogs(c) : Pins(c, n, dep_name)}

\* This step hands exactly one issue to IssuesList::add
SubmitsOne ==
    /\ Len(submitted') = Len(submitted) + 1
    /\ submitted' = Append(submitted, submitted'[Len(submitted')])

\* The issue that step hands over, with its package identity
Submitted == submitted'[Len(submitted')]

(* C3: the check of a non-ignored dependency with a direct version submits *)
(* exactly one no-direct-version error for it when some catalog pins its   *)
(* name and nothing otherwise; available_in lists exactly the catalogs     *)
(* that pin the name, each once, the default catalog first and the named   *)
(* catalogs in their declared order.  No other step submits that error.    *)
C3_NoDirectVersionIffPinned ==
    [][/\ (VisitStep /\ IsDirect(CurrentDeps[dep_idx].version)) =>
             LET dep == CurrentDeps[dep_idx]
             IN  IF Pinning(catalogs, dep.name) = {}
                 THEN submitted' = submitted /\ issues' = issues
                 ELSE /\ SubmitsOne
                      /\ Submitted[1] = CurrentPackage.package_type
                      /\ Submitted[2].name = RuleNoDirectVersion
                      /\ Submitted[2].level = LevelError
                      /\ Submitted[2].dependency_name = dep.name
                      /\ Submitted[2].version = dep.version
                      /\ Submitted[2].available_in = find_dependency(catalogs, dep.name)
                      /\ Range(Submitted[2].available_in) = Pinning(catalogs, dep.name)
                      /\ \A a, b \in 1..Len(Submitted[2].available_in) :
                            a < b => CatalogRank(catalogs, Submitted[2].available_in[a])
                                     < CatalogRank(catalogs, Submitted[2].available_in[b])
       /\ (SubmitsOne /\ Submitted[2].name = RuleNoDirectVersion) =>
             VisitStep /\ IsDirect(CurrentDeps[dep_idx].version)
      ]_vars

\* A no-direct-version error available in the default and in a named catalog
C3_Witness ==
    \E k \in 1..Len(submitted) :
       /\ submitted[k][2].name = RuleNoDirectVersion
       /\ Len(submitted[k][2].available_in) = 2
       /\ submitted[k][2].available_in[1] = None

\* A direct version whose name no catalog pins has been checked
C3_WitnessAbsent ==
    /\ pc = "returned"
    /\ \E ij \in DepPositions :
          /\ Checked(ij[1], ij[2])
          /\ IsDirect(Dep(ij[1], ij[2]).version)
          /\ ~PinnedSomewhere(catalogs, Dep(ij[1], ij[2]).name)

-----------------------------------------------------------------------------
\* The catalog a reference names: the text after "catalog:", nothing or
\* "default" standing for the default catalog
RefTarget(version) ==
    LET rest == SubSeq(version, Len(CatalogPrefix) + 1, Len(version))
    IN  IF rest = <<>> \/ rest = StrDefault THEN None ELSE Some(rest)

(* C4: the check of a non-ignored dependency whose version is a catalog    *)
(* reference either submits one catalog-entry-exists error and leaves      *)
(* used_entries alone, exactly when the referenced catalog does not pin    *)
(* the name, or submits nothing and removes from used_entries exactly the  *)
(* entry (referenced catalog, name).                                       *)
C4_CatalogRefErrorOrUsed ==
    [][(VisitStep /\ is_catalog_ref(CurrentDeps[dep_idx].version)) =>
          LET dep == CurrentDeps[dep_idx]
              target == RefTarget(dep.version)
          IN  IF Pins(catalogs, target, dep.name)
              THEN /\ submitted' = submitted
                   /\ issues' = issues
                   /\ used_entries' = used_entries \ {CatalogEntry(target, dep.name)}
              ELSE /\ used_entries' = used_entries
                   /\ SubmitsOne
                   /\ Submitted[1] = CurrentPackage.package_type
                   /\ Submitted[2].name = RuleCatalogEntryExists
                   /\ Submitted[2].level = LevelError
                   /\ Submitted[2].dependency_name = dep.name
                   /\ Submitted[2].catalog_ref = dep.version
      ]_vars

\* A reference to a named catalog has been resolved while another catalog's
\* entry of the same name stays in used_entries
C4_Witness ==
    \E ij \in DepPositions :
       /\ Checked(ij[1], ij[2])
       /\ is_catalog_ref(Dep(ij[1], ij[2]).version)
       /\ Pins(catalogs, RefTarget(Dep(ij[1], ij[2]).version), Dep(ij[1], ij[2]).name)
       /\ CatalogEntry(RefTarget(Dep(ij[1], ij[2]).version), Dep(ij[1], ij[2]).name)
             \notin used_entries
       /\ \E e \in used_entries : e.dependency_name = Dep(ij[1], ij[2]).name

\* A reference to a catalog that lacks the name has been reported
C4_WitnessError ==
    \E k \in 1..Len(submitted) : submitted[k][2].name = RuleCatalogEntryExists

-----------------------------------------------------------------------------
\* What a catalog-entry-exists issue for this reference and name must say
ExpectedMissing(c, catalog_ref, dep_name) ==
    LET target == RefTarget(catalog_ref)
    IN  IF target = None
        THEN DefaultEntry
        ELSE IF CatalogExists(c, unwrap(target))
             THEN NamedEntry(unwrap(target))
             ELSE NamedCatalog(unwrap(target))

(* C5: every catalog-entry-exists issue submitted has missing =            *)
(* DefaultEntry when its reference is to the default catalog (which then   *)
(* lacks the name), NamedCatalog(n) when it names a catalog n that does    *)
(* not exist, and NamedEntry(n) when catalog n exists and does not pin the *)
(* name; NamedEntry is never said of a missing catalog nor NamedCatalog of *)
(* an existing one.                                                        *)
C5_MissingIdentifiesFailure ==
    \A k \in 1..Len(submitted) :
       submitted[k][2].name = RuleCatalogEntryExists =>
          LET issue == submitted[k][2]
          IN  /\ is_catalog_ref(issue.catalog_ref)
              /\ ~Pins(catalogs, RefTarget(issue.catalog_ref), issue.dependency_name)
              /\ issue.missing
                    = ExpectedMissing(catalogs, issue.catalog_ref, issue.dependency_name)
              /\ issue.missing.tag = "NamedEntry" =>
                    CatalogExists(catalogs, issue.missing.name)
              /\ issue.missing.tag = "NamedCatalog" =>
                    ~CatalogExists(catalogs, issue.missing.name)

\* A reference to catalog legacy, which exists without the name, is reported
C5_Witness ==
    \E k \in 1..Len(submitted) :
       /\ submitted[k][2].name = RuleCatalogEntryExists
       /\ submitted[k][2].missing = NamedEntry(StrLegacy)

-----------------------------------------------------------------------------
\* The unused-catalog-entry warnings handed to IssuesList::add so far
UnusedSubmitted == {k \in 1..Len(submitted) : submitted[k][2].name = RuleUnusedCatalogEntry}

EntryOf(issue) == CatalogEntry(issue.catalog_name, issue.dependency_name)

\* The version at which catalog n of c pins dep_name
PinnedVersion(c, n, dep_name) ==
    LET m == IF n = None
             THEN c.default
             ELSE c.named[CHOOSE j \in 1..Len(c.named) : c.named[j][1] = unwrap(n)][2]
    IN  m[CHOOSE i \in 1..Len(m) : m[i][1] = dep_name][2]

LegacyScenario ==
    /\ catalogs = [default |-> <<>>,
                   named |-> <<<<StrLegacy, <<<<"jquery", StrDirect16>>>>>>>>]
    /\ \A ij \in DepPositions : Dep(ij[1], ij[2]).name # "jquery"

(* C6: the unused-catalog-entry warnings are submitted after the pass over *)
(* the manifests, one for each entry left in used_entries and for no other *)
(* entry, each for the Root package identity with the entry's catalog name *)
(* and pinned version, and no per-dependency issue is submitted after one  *)
(* of them; a named catalog legacy pinning jquery that no package mentions *)
(* gives exactly one warning, with catalog_name = Some("legacy").          *)
C6_UnusedWarningsForRemainingEntries ==
    /\ \A k \in UnusedSubmitted :
          LET issue == submitted[k][2]
          IN  /\ pc \in {"unused", "returned", "exited", "collect_issues"}
              /\ submitted[k][1] = Root
              /\ issue.level = LevelWarning
              /\ EntryOf(issue) \in used_entries
              /\ issue.version
                    = PinnedVersion(catalogs, issue.catalog_name, issue.dependency_name)
              /\ \A m \in 1..Len(submitted) : m > k => m \in UnusedSubmitted
              /\ \A m \in UnusedSubmitted : m # k => EntryOf(submitted[m][2]) # EntryOf(issue)
    /\ \A k, m \in 1..Len(issues.issues) :
          (k < m /\ issues.issues[k][2].name = RuleUnusedCatalogEntry) =>
             issues.issues[m][2].name = RuleUnusedCatalogEntry
    /\ pc = "unused" =>
          {EntryOf(submitted[k][2]) : k \in UnusedSubmitted} = used_entries \ pending
    /\ PassOver => {EntryOf(submitted[k][2]) : k \in UnusedSubmitted} = used_entries
    /\ (PassOver /\ LegacyScenario /\ args.ignore_rules = <<>>) =>
          /\ warnings_count(issues) = 1
          /\ \E k \in 1..Len(issues.issues) :
                /\ issues.issues[k][2].name = RuleUnusedCatalogEntry
                /\ issues.issues[k][2].catalog_name = Some(StrLegacy)
                /\ issues.issues[k][1] = Root

\* A per-dependency issue of a workspace package, then the warning for the
\* entry of a named catalog
C6_Witness ==
    /\ pc = "returned"
    /\ Len(submitted) >= 2
    /\ submitted[1][2].name # RuleUnusedCatalogEntry
    /\ submitted[1][1] # Root
    /\ \E k \in UnusedSubmitted : submitted[k][2].catalog_name = Some(StrLegacy)

-----------------------------------------------------------------------------
\* The submissions whose rule name the list does not ignore
Kept(list, subs) == SelectSeq(subs, LAMBDA s : s[2].name \notin Range(list.ignored_rules))

(* C7: whatever has been handed to IssuesList::add, no issue of the list   *)
(* has an ignored rule name; the list is the sequence of the non-ignored   *)
(* submissions in the order of their submission; errors_count() and        *)
(* warnings_count() count the non-ignored submissions of their level only. *)
C7_IgnoredRulesNeverListed ==
    /\ \A k \in 1..Len(issues.issues) :
          issues.issues[k][2].name \notin Range(issues.ignored_rules)
    /\ issues.issues = Kept(issues, submitted)
    /\ errors_count(issues)
          = Cardinality({k \in 1..Len(submitted) :
                            /\ submitted[k][2].name \notin Range(issues.ignored_rules)
                            /\ submitted[k][2].level = LevelError})
    /\ warnings_count(issues)
          = Cardinality({k \in 1..Len(submitted) :
                            /\ submitted[k][2].name \notin Range(issues.ignored_rules)
                            /\ submitted[k][2].level = LevelWarning})

\* An ignored issue has been submitted before an issue that is kept
C7_Witness ==
    /\ Len(submitted) >= 2
    /\ submitted[1][2].name \in Range(issues.ignored_rules)
    /\ Len(issues.issues) >= 1

\* Issues of an ignored rule have been submitted twice
C7_WitnessTwice ==
    Cardinality({k \in 1..Len(submitted) :
                    submitted[k][2].name \in Range(issues.ignored_rules)}) >= 2

-----------------------------------------------------------------------------
(* C8: a second call of collect_issues on the same packages, catalogs and  *)
(* ignore lists returns the same ordered issue list as the first, the      *)
(* order of the unused-catalog-entry warnings included.                    *)
C8_SameInputsSameList ==
    (/\ pc = "returned"
     /\ call = 2
     /\ args.ignore_rules = unwrap(first).ignore_rules) =>
        issues.issues = unwrap(first).issues.issues

-----------------------------------------------------------------------------
\* No two elements of the list have the same package identity, rule name and
\* issue content
NoTwoEqual(list) == \A k, m \in 1..Len(list) : k # m => list[k] # list[m]

(* C9 as claimed: the list of collect_issues has no two equal elements,    *)
(* for any list of packages.                                               *)
C9_ListDeduplicated == NoTwoEqual(issues.issues)

(* C9: when no two packages have the same package identity, no two         *)
(* elements of the list of collect_issues have the same package identity,  *)
(* rule name and issue content.                                            *)
C9_DistinctPackagesDistinctIssues ==
    (\A i, j \in 1..Len(packages) :
        i # j => packages[i].package_type # packages[j].package_type) =>
       NoTwoEqual(issues.issues)

\* The root package and a workspace package make the same mistake
C9_Witness ==
    /\ pc = "returned"
    /\ Len(packages) = 2
    /\ packages[1].package_type = Root
    /\ packages[2].package_type # Root
    /\ packages[1].inner = packages[2].inner
    /\ Len(issues.issues) >= 2
    /\ issues.issues[1][2] = issues.issues[2][2]

-----------------------------------------------------------------------------
\* The load failed: main printed an error and left
LoadFailed == pc = "exited" /\ printed = "error"

(* C10: main exits with 0 exactly when loading succeeded, the list has no  *)
(* error and fail_on_warnings is unset or the list has no warning, and     *)
(* with 1 otherwise; after a load failure nothing was handed to the rules  *)
(* and no issue is printed.                                                *)
C10_ExitCode ==
    /\ (pc = "exited") <=> is_some(exit_code)
    /\ pc = "exited" =>
          /\ unwrap(exit_code) \in {0, 1}
          /\ unwrap(exit_code) = 0 <=>
                /\ ~LoadFailed
                /\ \A k \in 1..Len(issues.issues) : issues.issues[k][2].level # LevelError
                /\ \/ ~args.fail_on_warnings
                   \/ \A k \in 1..Len(issues.issues) :
                         issues.issues[k][2].level # LevelWarning
          /\ printed = "issues" <=> (~LoadFailed /\ issues.issues # <<>>)
          /\ printed = "success" <=> (~LoadFailed /\ issues.issues = <<>>)
    /\ LoadFailed =>
          /\ submitted = <<>>
          /\ issues.issues = <<>>
          /\ used_entries = {}
          /\ packages = <<>>

\* --fail-on-warnings turns a list of warnings into exit code 1
C10_Witness ==
    /\ pc = "exited"
    /\ exit_code = Some(1)
    /\ args.fail_on_warnings
    /\ errors_count(issues) = 0
    /\ warnings_count(issues) > 0

\* The workspace was read and a manifest then failed to load
C10_WitnessLoadFailure ==
    /\ LoadFailed
    /\ catalogs # NoCatalogs

-----------------------------------------------------------------------------
\* s begins with the characters of p
Begins(s, p) == Len(s) >= Len(p) /\ \A i \in 1..Len(p) : s[i] = p[i]

\* s without its first n characters
Drop(s, n) == [i \in 1..(Len(s) - n) |-> s[i + n]]

(* C11: for every version string exactly one of catalog reference, special *)
(* protocol, direct version (neither of the two) holds, the first two are  *)
(* never both true, and is_catalog_ref agrees with                         *)
(* parse_catalog_ref(v).is_some().                                         *)
C11_ClassifierPartition ==
    is_some(classified) =>
       LET r == unwrap(classified)
           direct == ~r.is_catalog_ref /\ ~r.is_special_protocol
       IN  /\ ~(r.is_catalog_ref /\ r.is_special_protocol)
           /\ Cardinality({b \in {<<1, r.is_catalog_ref>>, <<2, r.is_special_protocol>>,
                                  <<3, direct>>} : b[2]}) = 1
           /\ r.is_catalog_ref <=> is_some(r.parse_catalog_ref)
           /\ r.is_catalog_ref <=> Begins(candidate, CatalogPrefix)
           /\ r.is_special_protocol <=>
                 \E i \in 1..Len(SpecialPrefixes) : Begins(candidate, SpecialPrefixes[i])

\* A catalog reference whose name is a special prefix has been classified
C11_Witness ==
    /\ is_some(classified)
    /\ unwrap(classified).is_catalog_ref
    /\ Len(candidate) > Len(CatalogPrefix)
    /\ is_special_protocol(Drop(candidate, Len(CatalogPrefix)))

-----------------------------------------------------------------------------
(* C12: parse_catalog_ref(v) is None when v does not start with            *)
(* "catalog:"; otherwise, with s the text after the prefix, Some(None)     *)
(* when s is empty or "default" and Some(Some(s)) for any other s.         *)
C12_ParseCatalogRef ==
    is_some(classified) =>
       LET r == unwrap(classified).parse_catalog_ref
           s == Drop(candidate, Len(CatalogPrefix))
       IN  /\ ~Begins(candidate, CatalogPrefix) => r = None
           /\ Begins(candidate, CatalogPrefix) =>
                 r = IF s = <<>> \/ s = StrDefault THEN Some(None) ELSE Some(Some(s))
           /\ candidate = CatalogPrefix => r = Some(None)
           /\ candidate = CatalogPrefix \o StrDefault => r = Some(None)
           /\ candidate = CatalogPrefix \o StrReact16 => r = Some(Some(StrReact16))
           /\ candidate = StrCaret100 => r = None
           /\ candidate = StrWorkspaceAny => r = None

\* "catalog:default" has been parsed
C12_Witness ==
    /\ is_some(classified)
    /\ candidate = CatalogPrefix \o StrDefault

-----------------------------------------------------------------------------
\* The version begins with one of the seven special prefixes
IsSpecial(v) == \E i \in 1..Len(SpecialPrefixes) : Begins(v, SpecialPrefixes[i])

\* Every dependency called dep_name, in whatever manifest, has a special version
OnlySpecial(dep_name) ==
    \A ij \in DepPositions :
       Dep(ij[1], ij[2]).name = dep_name => IsSpecial(Dep(ij[1], ij[2]).version)

\* The entry has been reported with an unused-catalog-entry warning
ReportedUnused(e) == \E k \in UnusedSubmitted : EntryOf(submitted[k][2]) = e

(* C13: the check of a dependency whose version is a special protocol      *)
(* submits no issue and removes nothing from used_entries, whether or not  *)
(* a catalog pins its name; when the pass is over, every entry whose name  *)
(* is used with special-protocol versions only is still in used_entries    *)
(* and is reported unused.                                                 *)
C13_SpecialProtocolSkipped ==
    [][/\ (VisitStep /\ IsSpecial(CurrentDeps[dep_idx].version)) =>
             /\ submitted' = submitted
             /\ issues' = issues
             /\ used_entries' = used_entries
       /\ PassOver' =>
             \A e \in all_entries(catalogs) :
                OnlySpecial(e.dependency_name) =>
                   (e \in used_entries /\ ReportedUnused(e))'
      ]_vars

\* A dependency pinned in a catalog and written workspace:* has been checked
C13_Witness ==
    /\ pc = "returned"
    /\ \E ij \in DepPositions :
          /\ Checked(ij[1], ij[2])
          /\ IsSpecial(Dep(ij[1], ij[2]).version)
          /\ OnlySpecial(Dep(ij[1], ij[2]).name)
          /\ \E e \in used_entries :
                e.dependency_name = Dep(ij[1], ij[2]).name /\ ReportedUnused(e)

-----------------------------------------------------------------------------
\* The text sub occurs in the text s
Contains(s, sub) ==
    \E i \in 0..(Len(s) - Len(sub)) : \A j \in 1..Len(sub) : s[i + j] = sub[j]

\* The words by which a message says what is missing
MissingWords(missing) ==
    IF missing.tag = "DefaultEntry"
    THEN TxtNotInDefault
    ELSE IF missing.tag = "NamedCatalog"
         THEN TxtButCatalog \o missing.name \o TxtDoesNotExist
         ELSE TxtNotInCatalog \o missing.name \o TxtEndQuote

\* The message names the dependency, its kind and what is missing
MessageNamesTheFailure(issue) ==
    /\ Contains(message(issue), <<issue.dependency_name>>)
    /\ Contains(message(issue), <<issue.kind>>)
    /\ Contains(message(issue), MissingWords(issue.missing))

(* C14: the message of every catalog-entry-exists issue includes the       *)
(* dependency name, the reference string as written in the manifest, the   *)
(* dependency kind and what is missing; for "catalog:default" and a name   *)
(* the default catalog lacks, the message contains "catalog:default".      *)
C14_MessageHasLiteralReference ==
    \A k \in 1..Len(submitted) :
       submitted[k][2].name = RuleCatalogEntryExists =>
          /\ MessageNamesTheFailure(submitted[k][2])
          /\ Contains(message(submitted[k][2]), submitted[k][2].catalog_ref)

-----------------------------------------------------------------------------
\* The package is named in the ignored-package list, the root manifest by "(root)"
PkgSkipped(pkg) ==
    \E k \in 1..Len(args.ignore_packages) :
       args.ignore_packages[k]
          = (IF pkg.package_type = Root THEN "(root)" ELSE pkg.package_type.name)

\* The dependency is named in the ignored-dependency list
NameSkipped(dep) ==
    \E k \in 1..Len(args.ignore_dependencies) : args.ignore_dependencies[k] = dep.name

\* Some manifest has a dependency called dep_name, and every such dependency
\* is ignored by its name or by its package
OnlyIgnored(dep_name) ==
    /\ \E ij \in DepPositions : Dep(ij[1], ij[2]).name = dep_name
    /\ \A ij \in DepPositions :
          Dep(ij[1], ij[2]).name = dep_name =>
             PkgSkipped(packages[ij[1]]) \/ NameSkipped(Dep(ij[1], ij[2]))

(* C15: a step of the pass that stands at an ignored package leaves the    *)
(* package as a whole, and a step that stands at an ignored dependency of  *)
(* another package leaves that dependency, without submitting an issue and *)
(* without removing anything from used_entries; when the pass is over,     *)
(* every catalog entry whose name only ignored packages or ignored         *)
(* dependencies use is in used_entries and is reported unused, for the     *)
(* Root package identity, also when "(root)" is an ignored package.        *)
C15_IgnoredSkippedCompletely ==
    [][/\ (pc = "packages" /\ pkg_idx <= Len(packages) /\ PkgSkipped(CurrentPackage)) =>
             /\ pkg_idx' = pkg_idx + 1
             /\ submitted' = submitted
             /\ issues' = issues
             /\ used_entries' = used_entries
       /\ (/\ pc = "packages"
           /\ pkg_idx <= Len(packages)
           /\ ~PkgSkipped(CurrentPackage)
           /\ dep_idx <= Len(CurrentDeps)
           /\ NameSkipped(CurrentDeps[dep_idx])) =>
             /\ dep_idx' = dep_idx + 1
             /\ pkg_idx' = pkg_idx
             /\ submitted' = submitted
             /\ issues' = issues
             /\ used_entries' = used_entries
       /\ PassOver' =>
             \A e \in all_entries(catalogs) :
                OnlyIgnored(e.dependency_name) =>
                   (/\ e \in used_entries
                    /\ \E k \in UnusedSubmitted :
                          /\ EntryOf(submitted[k][2]) = e
                          /\ submitted[k][1] = Root
                    /\ RuleUnusedCatalogEntry \notin Range(args.ignore_rules) =>
                          \E k \in 1..Len(issues.issues) :
                             /\ issues.issues[k][1] = Root
                             /\ issues.issues[k][2].name = RuleUnusedCatalogEntry
                             /\ EntryOf(issues.issues[k][2]) = e)'
      ]_vars

\* "(root)" is ignored, the root manifest refers to a catalog entry, and the
\* entry is reported unused
C15_Witness ==
    /\ pc = "returned"
    /\ "(root)" \in Range(args.ignore_packages)
    /\ \E ij \in DepPositions :
          /\ packages[ij[1]].package_type = Root
          /\ is_catalog_ref(Dep(ij[1], ij[2]).version)
          /\ \E k \in 1..Len(issues.issues) :
                /\ issues.issues[k][1] = Root
                /\ issues.issues[k][2].name = RuleUnusedCatalogEntry
                /\ issues.issues[k][2].dependency_name = Dep(ij[1], ij[2]).name
                /\ issues.issues[k][2].catalog_name = RefTarget(Dep(ij[1], ij[2]).version)

\* A dependency ignored by its name leaves the entry it refers to unused
C15_WitnessDependency ==
    /\ pc = "returned"
    /\ args.ignore_packages = <<>>
    /\ \E e \in used_entries : OnlyIgnored(e.dependency_name) /\ ReportedUnused(e)

-----------------------------------------------------------------------------
\* Every (catalog, dependency) pair of the default and the named catalogs
AllPairs(c) ==
    {e \in [catalog_name : AllCatalogs(c), dependency_name : DepNames] :
        Pins(c, e.catalog_name, e.dependency_name)}

(* C16: collect_issues starts with used_entries equal to the set of all    *)
(* (catalog, dependency) pairs of the catalogs, and every later step of    *)
(* the call leaves used_entries a subset of its previous value and of that *)
(* set: no entry is added back, a removed entry stays removed.             *)
C16_UsedEntriesOnlyShrink ==
    [][/\ pc = "collect_issues" => used_entries' = AllPairs(catalogs)
       /\ pc \in {"packages", "unused"} =>
             /\ used_entries' \subseteq used_entries
             /\ used_entries \subseteq AllPairs(catalogs)
             /\ \A e \in AllPairs(catalogs) \ used_entries : e \notin used_entries'
      ]_vars

\* The pass has removed an entry of a named catalog and left another entry
C16_Witness ==
    /\ pc = "returned"
    /\ used_entries # {}
    /\ \E e \in AllPairs(catalogs) \ used_entries : e.catalog_name # None

-----------------------------------------------------------------------------
\* The entry of a named catalog called "default"
NamedDefault(dep_name) == CatalogEntry(Some(StrDefault), dep_name)

\* The reference a manifest writes to name catalog n
RefTo(n) == IF n = None THEN CatalogPrefix ELSE CatalogPrefix \o unwrap(n)

\* Some dependency called dep_name that is not ignored has a direct version
DirectUse(dep_name) ==
    \E ij \in DepPositions :
       /\ Dep(ij[1], ij[2]).name = dep_name
       /\ IsDirect(Dep(ij[1], ij[2]).version)
       /\ ~PkgSkipped(packages[ij[1]])
       /\ ~NameSkipped(Dep(ij[1], ij[2]))

C17_WitnessDirect ==
    /\ pc = "returned"
    /\ \E d \in DepNames :
          NamedDefault(d) \in AllPairs(catalogs) \ used_entries

====
